---- MODULE Spec2Model ----
(***************************************************************************)
(* Driver Monitoring System backend (src/backend/main.py): the             *)
(* ConnectionManager singleton, the /ws session handler coroutine and the  *)
(* REST endpoints that touch the manager, as one state machine.            *)
(*                                                                         *)
(* Every `await` of the source is a point where the asyncio event loop may *)
(* run another task, so a coroutine is cut into one action per stretch of  *)
(* code between two awaits.                                                *)
(***************************************************************************)
EXTENDS Integers, Sequences, FiniteSets, TLC

\* Number of WebSocket objects (one /ws session handler each).
NumConns == 2
\* Number of REST request tasks (POST /start, POST /stop) that can be in flight.
NumReqs == 1
\* Largest value the wall clock reaches.
MaxTime == 2

Conns == 1..NumConns
Reqs == 1..NumReqs

\* Inbound text frames: the four protocol types, a JSON object of another (or
\* no) type, a body json.loads rejects, and valid JSON that is not an object.
MsgKinds == {"ping", "get_stats", "start_monitoring", "stop_monitoring",
             "unknown", "bad_json", "non_object"}

VARIABLES
    active_connections,  \* manager.active_connections: a Python list
    stats,               \* manager.stats: total_connections, is_monitoring, last_update
    alive,               \* alive[c]: the transport of websocket c is open
    hpc,                 \* hpc[c]: where websocket_endpoint(c) stands
    reply,               \* reply[c]: the type of the frame the handler of c is sending
    disconnects,         \* disconnects[c]: calls of manager.disconnect(c) so far
    req,                 \* req[r]: REST request task r and its send_to_all call
    ev                   \* what the last step did on the wire

vars == <<active_connections, stats, alive, hpc, reply, disconnects, req, ev>>

\* last_update before the first mutation (None in the source).
None == 0

NoReply == "none"

\* What a step did on the wire: the connection whose handler ran (who, 0 for
\* any other task), the inbound frame it consumed or the exception that ended
\* it (arg), and the frames it wrote (out).
Ev(who, arg, out) == [who |-> who, arg |-> arg, out |-> out]
NoEv == Ev(0, "none", {})
Frame(to, type) == [to |-> to, type |-> type]

\* A REST request task.  pc, kind, idx and cur are the coroutine: where it
\* stands, which endpoint it runs, the index its list iterator holds and the
\* loop variable `connection`.  The other fields are the history of its
\* send_to_all call: the connections registered when it began (start), those
\* of them whose transport was closed then (dead0), whether no other task
\* has changed the list since (quiet), and how many frames it has written to
\* each connection (got).
IdleReq == [pc |-> "idle", kind |-> "none", idx |-> 0, cur |-> 0,
            start |-> {}, dead0 |-> {}, quiet |-> TRUE,
            got |-> [c \in Conns |-> 0]]

Range(s) == {s[i] : i \in 1..Len(s)}

\* list.remove(x): deletes the first element equal to x.
RECURSIVE ListRemove(_, _)
ListRemove(list, x) ==
    IF list = <<>> THEN <<>>
    ELSE IF Head(list) = x THEN Tail(list)
    ELSE <<Head(list)>> \o ListRemove(Tail(list), x)

\* The values datetime.now() can return where the source stores it in
\* last_update: the wall clock has not moved since the value stored last, or
\* it has.  Time starts at 1.
Now == {t \in stats.last_update..(stats.last_update + 1) : 1 <= t /\ t <= MaxTime}

\* The history of the send_to_all calls in flight, updated when another task
\* runs: whether that task changed the list.
Watch(rq, mutated) ==
    [r \in Reqs |->
        IF rq[r].pc = "idle" THEN rq[r]
        ELSE [rq[r] EXCEPT !.quiet = @ /\ ~mutated]]

Init ==
    /\ active_connections = <<>>
    /\ stats = [total_connections |-> 0, is_monitoring |-> FALSE, last_update |-> None]
    /\ alive = [c \in Conns |-> TRUE]
    /\ hpc = [c \in Conns |-> "new"]
    /\ reply = [c \in Conns |-> NoReply]
    /\ disconnects = [c \in Conns |-> 0]
    /\ req = [r \in Reqs |-> IdleReq]
    /\ ev = NoEv

(***************************************************************************)
(* ConnectionManager                                                       *)
(***************************************************************************)

\* connect without line 43: the count is not recomputed.
connect_stale_count(websocket, t) ==
    /\ active_connections' = Append(active_connections, websocket)
    /\ stats' = [stats EXCEPT !.last_update = t]

\* connect re-initialising the monitoring flag for the new client.
connect_resets_monitoring(websocket, t) ==
    /\ active_connections' = Append(active_connections, websocket)
    /\ stats' = [stats EXCEPT !.total_connections = Len(active_connections'),
                              !.is_monitoring = FALSE,
                              !.last_update = t]

\* connect appending the websocket both before and after the accept.
connect_appends_twice(websocket, t) ==
    /\ active_connections' = Append(Append(active_connections, websocket), websocket)
    /\ stats' = [stats EXCEPT !.total_connections = Len(active_connections'),
                              !.last_update = t]

\* connect, once `await websocket.accept()` has returned: lines 42-44.
connect(websocket, t) ==
    /\ active_connections' = Append(active_connections, websocket)
    /\ stats' = [stats EXCEPT !.total_connections = Len(active_connections'),
                              !.last_update = t]

\* disconnect removing the oldest connection (pop(0)) instead of its own.
disconnect_pops_first(websocket, t) ==
    /\ active_connections' =
           IF websocket \in Range(active_connections)
           THEN Tail(active_connections)
           ELSE active_connections
    /\ stats' = [stats EXCEPT !.total_connections = Len(active_connections'),
                              !.last_update = t]

\* disconnect without lines 48-49: the connection stays in the list.
disconnect_no_remove(websocket, t) ==
    /\ active_connections' = active_connections
    /\ stats' = [stats EXCEPT !.total_connections = Len(active_connections'),
                              !.last_update = t]

\* disconnect without line 50: the count is not recomputed.
disconnect_stale_count(websocket, t) ==
    /\ active_connections' =
           IF websocket \in Range(active_connections)
           THEN ListRemove(active_connections, websocket)
           ELSE active_connections
    /\ stats' = [stats EXCEPT !.last_update = t]

\* disconnect with line 50 ahead of lines 48-49: the count is taken before
\* the removal.
disconnect_counts_first(websocket, t) ==
    /\ active_connections' =
           IF websocket \in Range(active_connections)
           THEN ListRemove(active_connections, websocket)
           ELSE active_connections
    /\ stats' = [stats EXCEPT !.total_connections = Len(active_connections),
                              !.last_update = t]

\* disconnect: lines 48-51.
disconnect(websocket, t) ==
    /\ active_connections' =
           IF websocket \in Range(active_connections)
           THEN ListRemove(active_connections, websocket)
           ELSE active_connections
    /\ stats' = [stats EXCEPT !.total_connections = Len(active_connections'),
                              !.last_update = t]

\* A loop that stops one item before the end of the list.
ForNext_stops_early(rec, list) ==
    IF rec.idx + 1 < Len(list)
    THEN [rec EXCEPT !.pc = "send", !.cur = list[rec.idx + 1], !.idx = rec.idx + 1]
    ELSE [rec EXCEPT !.pc = "done", !.cur = 0]

\* `for connection in self.active_connections` fetching its next item: a list
\* iterator holds an index into the live list, yields the item at that index
\* and advances, and stops once the index is past the end (line 56).
ForNext(rec, list) ==
    IF rec.idx < Len(list)
    THEN [rec EXCEPT !.pc = "send", !.cur = list[rec.idx + 1], !.idx = rec.idx + 1]
    ELSE [rec EXCEPT !.pc = "done", !.cur = 0]

\* The except body dropping the oldest connection (pop(0)) instead of the
\* one whose send raised.
ExceptRemove_pops_first(list, connection) ==
    IF connection \in Range(list) THEN Tail(list) ELSE list

\* The list once the bare `except:` has run for `connection`: lines 59-62.
ExceptRemove(list, connection) ==
    IF connection \in Range(list) THEN ListRemove(list, connection) ELSE list

\* list.remove(x) raises ValueError when no element equals x.
RemoveRaises(list, x) == x \notin Range(list)

\* The except body calling remove without the membership test of line 61.
ExceptRaises_unguarded(list, connection) ==
    RemoveRaises(list, connection)

\* The except body of lines 59-62 raises: it reaches the remove of line 62,
\* and that remove raises.  Nothing awaits between lines 61 and 62.
ExceptRaises(list, connection) ==
    connection \in Range(list) /\ RemoveRaises(list, connection)

\* The "type" of the message POST /start and POST /stop pass to send_to_all.
BroadcastType(kind) ==
    IF kind = "start" THEN "monitoring_started" ELSE "monitoring_stopped"

\* send_to_all is called: the loop starts and runs up to its first await.
EnterSendToAll(r, kind) ==
    req' = [req EXCEPT ![r] =
        ForNext([IdleReq EXCEPT
                    !.kind = kind,
                    !.start = Range(active_connections),
                    !.dead0 = {c \in Range(active_connections) : ~alive[c]}],
                active_connections)]

\* send_to_all resumes from `await connection.send_text(...)`: the frame was
\* written, or the write raised and the bare except removes the connection;
\* then the loop fetches its next item and runs up to the next await.
\* stats is not touched.  An exception raised inside the except body would
\* leave send_to_all and the endpoint (pc "raised": the server answers 500).
SendToAllStep(r) ==
    /\ req[r].pc = "send"
    /\ LET c == req[r].cur
           ok == alive[c]
           raises == ~ok /\ ExceptRaises(active_connections, c)
           list == IF ok \/ raises THEN active_connections
                   ELSE ExceptRemove(active_connections, c)
           mine == IF ok THEN [req[r] EXCEPT !.got[c] = @ + 1] ELSE req[r]
       IN /\ active_connections' = list
          /\ req' = [Watch(req, list # active_connections)
                        EXCEPT ![r] = IF raises THEN [mine EXCEPT !.pc = "raised"]
                                      ELSE ForNext(mine, list)]
          /\ ev' = Ev(0, "none",
                      IF ok THEN {Frame(c, BroadcastType(req[r].kind))} ELSE {})
    /\ UNCHANGED <<stats, alive, hpc, reply, disconnects>>

(***************************************************************************)
(* REST endpoints                                                          *)
(***************************************************************************)

\* POST /start up to the first await inside send_to_all: lines 143-147.
start_monitoring(r) ==
    /\ req[r].pc = "idle"
    /\ \E t \in Now :
          stats' = [stats EXCEPT !.is_monitoring = TRUE, !.last_update = t]
    /\ EnterSendToAll(r, "start")
    /\ ev' = NoEv
    /\ UNCHANGED <<active_connections, alive, hpc, reply, disconnects>>

\* POST /stop up to the first await inside send_to_all: lines 157-161.
stop_monitoring(r) ==
    /\ req[r].pc = "idle"
    /\ \E t \in Now :
          stats' = [stats EXCEPT !.is_monitoring = FALSE, !.last_update = t]
    /\ EnterSendToAll(r, "stop")
    /\ ev' = NoEv
    /\ UNCHANGED <<active_connections, alive, hpc, reply, disconnects>>

\* send_to_all has returned and the endpoint returns its success body:
\* lines 152 and 166.
Return(r) ==
    /\ req[r].pc = "done"
    /\ req' = [req EXCEPT ![r] = IdleReq]
    /\ ev' = NoEv
    /\ UNCHANGED <<active_connections, stats, alive, hpc, reply, disconnects>>

\* GET /stats returns manager.stats and changes nothing: lines 135-138.
get_stats ==
    UNCHANGED vars

\* GET /health returns len(manager.active_connections) and
\* stats["is_monitoring"] and changes nothing: lines 125-130.
health_check ==
    UNCHANGED vars

(***************************************************************************)
(* websocket_endpoint                                                      *)
(***************************************************************************)

\* `await manager.connect(websocket)`: line 71.  The accept succeeded; a
\* handler whose accept raises ends before it registers anything.
Connect(c) ==
    /\ hpc[c] = "new"
    /\ \E t \in Now : connect(c, t)
    /\ hpc' = [hpc EXCEPT ![c] = "recv"]
    /\ req' = Watch(req, TRUE)
    /\ ev' = NoEv
    /\ UNCHANGED <<alive, reply, disconnects>>

\* The handler coroutine has ended: the server closes the socket.
Closed(c) == [alive EXCEPT ![c] = FALSE]

\* The except clauses of lines 105-109: disconnect, and the handler ends.
Teardown(c, arg) ==
    /\ \E t \in Now : disconnect(c, t)
    /\ hpc' = [hpc EXCEPT ![c] = "done"]
    /\ reply' = [reply EXCEPT ![c] = NoReply]
    /\ disconnects' = [disconnects EXCEPT ![c] = @ + 1]
    /\ alive' = Closed(c)
    /\ req' = Watch(req, active_connections' # active_connections)
    /\ ev' = Ev(c, arg, {})

\* The ping branch answering with the get_stats branch's frame.
ReplyType_ping_as_stats(m) ==
    CASE m = "ping" -> "stats"
      [] m = "get_stats" -> "stats"
      [] m = "start_monitoring" -> "monitoring_started"
      [] m = "stop_monitoring" -> "monitoring_stopped"
      [] OTHER -> NoReply

\* The start_monitoring branch answering with the stop branch's frame.
ReplyType_swapped(m) ==
    CASE m = "ping" -> "pong"
      [] m = "get_stats" -> "stats"
      [] m = "start_monitoring" -> "monitoring_stopped"
      [] m = "stop_monitoring" -> "monitoring_stopped"
      [] OTHER -> NoReply

\* The reply each branch of lines 80-103 sends.
ReplyType(m) ==
    CASE m = "ping" -> "pong"
      [] m = "get_stats" -> "stats"
      [] m = "start_monitoring" -> "monitoring_started"
      [] m = "stop_monitoring" -> "monitoring_stopped"
      [] OTHER -> NoReply

\* The dispatch with a final `else` that answers a frame of unknown type
\* with an error frame.
Receive_answers_unknown(c, m) ==
    /\ hpc[c] = "recv"
    /\ alive[c]
    /\ CASE m \in {"bad_json", "non_object"} ->
              Teardown(c, m)
         [] m \in {"ping", "get_stats", "unknown"} ->
              /\ hpc' = [hpc EXCEPT ![c] = "reply"]
              /\ reply' = [reply EXCEPT ![c] = IF m = "unknown" THEN "error"
                                               ELSE ReplyType(m)]
              /\ ev' = Ev(c, m, {})
              /\ UNCHANGED <<active_connections, stats, alive, disconnects, req>>
         [] m \in {"start_monitoring", "stop_monitoring"} ->
              /\ \E t \in Now :
                    stats' = [stats EXCEPT
                                 !.is_monitoring = (m = "start_monitoring"),
                                 !.last_update = t]
              /\ hpc' = [hpc EXCEPT ![c] = "reply"]
              /\ reply' = [reply EXCEPT ![c] = ReplyType(m)]
              /\ ev' = Ev(c, m, {})
              /\ UNCHANGED <<active_connections, alive, disconnects, req>>

\* receive_text returns a frame; json.loads and the dispatch on
\* message.get("type") run up to the await of the reply: lines 76-103.
Receive(c, m) ==
    /\ hpc[c] = "recv"
    /\ alive[c]
    /\ CASE m \in {"bad_json", "non_object"} ->
              \* json.loads raises JSONDecodeError, or message.get raises
              \* AttributeError: `except Exception`, line 107.
              Teardown(c, m)
         [] m = "unknown" ->
              \* no branch matches: back to receive_text.
              /\ ev' = Ev(c, m, {})
              /\ UNCHANGED <<active_connections, stats, alive, hpc, reply,
                             disconnects, req>>
         [] m \in {"ping", "get_stats"} ->
              \* the reply is serialised (for get_stats, from manager.stats
              \* as it is now) and its send_text awaited.
              /\ hpc' = [hpc EXCEPT ![c] = "reply"]
              /\ reply' = [reply EXCEPT ![c] = ReplyType(m)]
              /\ ev' = Ev(c, m, {})
              /\ UNCHANGED <<active_connections, stats, alive, disconnects, req>>
         [] m \in {"start_monitoring", "stop_monitoring"} ->
              /\ \E t \in Now :
                    stats' = [stats EXCEPT
                                 !.is_monitoring = (m = "start_monitoring"),
                                 !.last_update = t]
              /\ hpc' = [hpc EXCEPT ![c] = "reply"]
              /\ reply' = [reply EXCEPT ![c] = ReplyType(m)]
              /\ ev' = Ev(c, m, {})
              /\ UNCHANGED <<active_connections, alive, disconnects, req>>

\* receive_text raises WebSocketDisconnect: lines 105-106.
ReceiveDisconnect(c) ==
    /\ hpc[c] = "recv"
    /\ ~alive[c]
    /\ Teardown(c, "disconnect")

\* `await websocket.send_text(reply)` resumes: the frame was written and the
\* loop is back at receive_text, or the write raised (lines 105-109).
ReplySent(c) ==
    /\ hpc[c] = "reply"
    /\ IF alive[c]
       THEN /\ hpc' = [hpc EXCEPT ![c] = "recv"]
            /\ reply' = [reply EXCEPT ![c] = NoReply]
            /\ ev' = Ev(c, "none", {Frame(c, reply[c])})
            /\ UNCHANGED <<active_connections, stats, alive, disconnects, req>>
       ELSE Teardown(c, "send_failed")

\* The handler task is cancelled while suspended in an await (server shutdown
\* or reload).  asyncio.CancelledError derives from BaseException since
\* Python 3.8, so neither except clause of lines 105-109 catches it and the
\* handler ends without disconnect; before 3.8 it derives from Exception and
\* line 107 catches it.
Cancelled(c) ==
    /\ hpc[c] \in {"recv", "reply"}
    /\ \/ Teardown(c, "cancelled")
       \/ /\ hpc' = [hpc EXCEPT ![c] = "done"]
          /\ reply' = [reply EXCEPT ![c] = NoReply]
          /\ alive' = Closed(c)
          /\ ev' = Ev(c, "cancelled", {})
          /\ UNCHANGED <<active_connections, stats, disconnects, req>>

\* The peer closes or the transport breaks: from now on receive_text raises
\* WebSocketDisconnect and send_text raises.
Drop(c) ==
    /\ alive[c]
    /\ hpc[c] \in {"recv", "reply"}
    /\ alive' = [alive EXCEPT ![c] = FALSE]
    /\ ev' = NoEv
    /\ UNCHANGED <<active_connections, stats, hpc, reply, disconnects, req>>

Next ==
    \/ \E c \in Conns : Connect(c)
    \/ \E c \in Conns : \E m \in MsgKinds : Receive(c, m)
    \/ \E c \in Conns : ReceiveDisconnect(c)
    \/ \E c \in Conns : ReplySent(c)
    \/ \E c \in Conns : Drop(c)
    \/ \E c \in Conns : Cancelled(c)
    \/ \E r \in Reqs : start_monitoring(r)
    \/ \E r \in Reqs : stop_monitoring(r)
    \/ \E r \in Reqs : SendToAllStep(r)
    \/ \E r \in Reqs : Return(r)
    \/ get_stats
    \/ health_check

Spec == Init /\ [][Next]_vars

(***************************************************************************)
(* Registry calls restricted to connect and disconnect: the sessions run,  *)
(* but no frame and no REST request sets the monitoring flag or            *)
(* broadcasts, so connect and disconnect are the only operations that      *)
(* reach the manager.                                                      *)
(***************************************************************************)

NextRegistry ==
    \/ \E c \in Conns : Connect(c)
    \/ \E c \in Conns :
          \E m \in MsgKinds \ {"start_monitoring", "stop_monitoring"} : Receive(c, m)
    \/ \E c \in Conns : ReceiveDisconnect(c)
    \/ \E c \in Conns : ReplySent(c)
    \/ \E c \in Conns : Drop(c)
    \/ \E c \in Conns : Cancelled(c)

SpecRegistry == Init /\ [][NextRegistry]_vars

(***************************************************************************)
(* Properties                                                              *)
(***************************************************************************)

\* A send_to_all call has returned and no other task changed the list
\* during it.
QuietDone(r) == req[r].pc = "done" /\ req[r].quiet

\* The connections registered at the start whose transport is open: a closed
\* transport never reopens, so these have been open throughout the call and
\* every send to them succeeded or would have.
Healthy(r) == {c \in req[r].start : alive[c]}

\* The connections registered at the start that are in the list: a websocket
\* is registered once, so these have been registered throughout the call.
Stayed(r) == req[r].start \cap Range(active_connections)

\* No transport of a connection registered at the start closed during the
\* call: each was closed before it began or has been open throughout.
Steady(r) == Healthy(r) = req[r].start \ req[r].dead0

\* C1: a broadcast with no concurrent register/unregister over a set in which
\* exactly one connection's send fails delivers the message exactly once to
\* every healthy connection, wherever the failing one stands in the list.
C1_OneFailingOthersDelivered ==
    \A r \in Reqs :
        (QuietDone(r) /\ Steady(r) /\ Cardinality(req[r].dead0) = 1)
            => \A c \in Healthy(r) : req[r].got[c] = 1

\* C2: whenever a reader looks at the monitoring state (GET /stats, GET
\* /health and the get_stats reply read it as it is, in any state),
\* stats["total_connections"] is the length of active_connections.
C2_CountMatchesList ==
    stats.total_connections = Len(active_connections)

\* C3: after a broadcast with no concurrent register/unregister, the
\* connection set is the set registered at its start minus every failing
\* connection: each failing connection is removed, no healthy one is.
C3_ExactlyFailingRemoved ==
    \A r \in Reqs :
        (QuietDone(r) /\ Steady(r))
            => Range(active_connections) = req[r].start \ req[r].dead0

\* C4: when sessions register or unregister while a broadcast is suspended
\* at a send, every connection that stays registered for the whole broadcast
\* and whose send would succeed still receives the message exactly once.
\* (Every connection is healthy when the broadcast starts, so the broadcast
\* itself has no dead connection of its own to remove.)
C4_StayersDelivered ==
    \A r \in Reqs :
        (req[r].pc = "done" /\ req[r].dead0 = {})
            => \A c \in Stayed(r) \cap Healthy(r) : req[r].got[c] = 1

\* C5: whenever a session handler that registered its connection has
\* terminated, manager.disconnect was called exactly once for the connection
\* and the connection is not in active_connections.
C5_TerminatedUnregistered ==
    \A c \in Conns :
        hpc[c] = "done"
            => disconnects[c] = 1 /\ c \notin Range(active_connections)

\* C6: after any sequence made only of connect and disconnect calls, each
\* connection registered at most once at a time, stats["total_connections"]
\* is the number of distinct connections in active_connections.
C6_CountAfterRegisterUnregister ==
    stats.total_connections = Cardinality(Range(active_connections))

\* A connect and a disconnect have both happened and a connection is left.
C6_Witness ==
    /\ Len(active_connections) = 1
    /\ \E c \in Conns : disconnects[c] = 1

\* The exceptions of message decoding and handling: json.loads rejecting the
\* body, message.get on a value that is no object, the reply's send raising.
HandlingErrors == {"bad_json", "non_object", "send_failed"}

\* The handler of c ends in this step on one of the HandlingErrors.
EndsOnError(c) ==
    /\ hpc[c] # "done"
    /\ hpc'[c] = "done"
    /\ ev'.who = c
    /\ ev'.arg \in HandlingErrors

\* C7: an exception while decoding or handling an inbound message closes and
\* unregisters only the session it happened on: every other session stays
\* where it is, every other connection keeps its place in (or out of)
\* active_connections, and is_monitoring is unchanged.
C7_ErrorClosesOnlyThatSession ==
    [][\A c \in Conns :
          EndsOnError(c) =>
              /\ c \notin Range(active_connections')
              /\ disconnects'[c] = disconnects[c] + 1
              /\ \A d \in Conns \ {c} :
                    /\ hpc'[d] = hpc[d]
                    /\ (d \in Range(active_connections')) =
                           (d \in Range(active_connections))
              /\ stats'.is_monitoring = stats.is_monitoring]_vars

\* A session has just ended on a handling error while another session is
\* Active and registered.
C7_Witness ==
    /\ ev.arg \in HandlingErrors
    /\ hpc[ev.who] = "done"
    /\ \E d \in Conns \ {ev.who} :
          hpc[d] = "recv" /\ d \in Range(active_connections)

Malformed == {"bad_json", "non_object"}

\* C8: a malformed inbound message is ignored: no reply is sent and the
\* session that received it remains Active and registered.
C8_MalformedIgnored ==
    ev.arg \in Malformed =>
        /\ ev.out = {}
        /\ hpc[ev.who] = "recv"
        /\ ev.who \in Range(active_connections)

\* C8 as the code has it: a malformed inbound message gets no reply and ends
\* the session that received it: disconnect is called, the connection is no
\* longer in active_connections and total_connections is recomputed.
C8_MalformedClosesSession ==
    ev.arg \in Malformed =>
        /\ ev.out = {}
        /\ hpc[ev.who] = "done"
        /\ disconnects[ev.who] = 1
        /\ ev.who \notin Range(active_connections)
        /\ stats.total_connections = Len(active_connections)

\* A malformed frame has just been handled.
C8_Witness ==
    ev.arg = "bad_json" /\ hpc[ev.who] = "done"

\* C9: when one of several registered connections sends start_monitoring
\* (stop_monitoring), is_monitoring is set to true (false), exactly one
\* send_text is issued, for a monitoring_started (monitoring_stopped) frame
\* on the sender's own socket, and no frame goes to any other connection:
\* the step that consumes the inbound frame sets the flag, writes nothing and
\* leaves the handler awaiting that one send; the step that completes the
\* send writes that frame to the sender alone (nothing if the sender's
\* transport has closed meanwhile) and the handler sends nothing more.
C9_WireStartStopRepliesToSenderOnly ==
    [][\A c \in Conns :
          /\ (hpc[c] = "recv" /\ ev'.who = c
                /\ ev'.arg \in {"start_monitoring", "stop_monitoring"})
               => /\ stats'.is_monitoring = (ev'.arg = "start_monitoring")
                  /\ ev'.out = {}
                  /\ hpc'[c] = "reply"
                  /\ reply'[c] = IF ev'.arg = "start_monitoring"
                                 THEN "monitoring_started"
                                 ELSE "monitoring_stopped"
          /\ (hpc[c] = "reply" /\ hpc'[c] # "reply"
                /\ reply[c] \in {"monitoring_started", "monitoring_stopped"})
               => /\ ev'.out = IF alive[c] /\ ev'.arg = "none"
                               THEN {Frame(c, reply[c])} ELSE {}
                  /\ reply'[c] = NoReply]_vars

\* The monitoring_started reply has just been written to its sender while
\* two connections are registered.
C9_Witness ==
    /\ ev.who \in Conns
    /\ ev.out = {Frame(ev.who, "monitoring_started")}
    /\ Len(active_connections) >= 2
    /\ stats.is_monitoring

\* C10: POST /start (POST /stop), with every registered connection healthy
\* and no connection registering or unregistering during the call, sets
\* is_monitoring to true (false) and delivers exactly one monitoring_started
\* (monitoring_stopped) frame to every registered connection.
C10_RestStartStopReachesAll ==
    /\ [](\A r \in Reqs :
             (QuietDone(r) /\ Healthy(r) = req[r].start)
                 => \A c \in Conns :
                        req[r].got[c] = IF c \in req[r].start THEN 1 ELSE 0)
    /\ [][\A r \in Reqs :
             /\ (req[r].pc = "idle" /\ req'[r].pc # "idle")
                  => /\ stats'.is_monitoring = (req'[r].kind = "start")
                     /\ req'[r].start = Range(active_connections)
             /\ (req[r].pc = "send" /\ req'[r].got # req[r].got)
                  => ev'.out = {Frame(req[r].cur, BroadcastType(req[r].kind))}]_vars

\* A POST /start over two healthy connections has returned undisturbed.
C10_Witness ==
    \E r \in Reqs :
        /\ QuietDone(r)
        /\ req[r].kind = "start"
        /\ Cardinality(req[r].start) >= 2
        /\ Healthy(r) = req[r].start
        /\ \A c \in req[r].start : req[r].got[c] = 1

\* C11: an inbound ping yields exactly one send_text, of a pong frame on the
\* sender's own socket, no frame to any other connection, and changes
\* neither the connection set nor the monitoring state: the step that
\* consumes the ping leaves active_connections and stats as they are, writes
\* nothing and leaves the handler awaiting that one send; the step that
\* completes the send writes the pong to the sender alone (nothing if the
\* sender's transport has closed meanwhile), and with the pong written the
\* list and stats are again untouched.
C11_PingPongToSenderOnly ==
    [][\A c \in Conns :
          /\ (hpc[c] = "recv" /\ ev'.who = c /\ ev'.arg = "ping")
               => /\ active_connections' = active_connections
                  /\ stats' = stats
                  /\ ev'.out = {}
                  /\ hpc'[c] = "reply"
                  /\ reply'[c] = "pong"
          /\ (hpc[c] = "reply" /\ hpc'[c] # "reply" /\ reply[c] = "pong")
               => /\ ev'.out = IF alive[c] /\ ev'.arg = "none"
                               THEN {Frame(c, "pong")} ELSE {}
                  /\ reply'[c] = NoReply
                  /\ stats'.is_monitoring = stats.is_monitoring
                  /\ ev'.out # {} =>
                        /\ active_connections' = active_connections
                        /\ stats' = stats
                        /\ hpc'[c] = "recv"]_vars

\* The pong has just been written to its sender while two connections are
\* registered.
C11_Witness ==
    /\ ev.who \in Conns
    /\ ev.out = {Frame(ev.who, "pong")}
    /\ Len(active_connections) >= 2

\* C12: an inbound well-formed message whose type is none of ping,
\* get_stats, start_monitoring, stop_monitoring (or that has no type) yields
\* no reply to any connection, leaves active_connections and all of stats
\* unchanged, and leaves the session Active: the handler is back at
\* receive_text with no send pending, and no other session moves.
C12_UnknownTypeIgnored ==
    [][\A c \in Conns :
          (hpc[c] = "recv" /\ ev'.who = c /\ ev'.arg = "unknown")
              => /\ ev'.out = {}
                 /\ active_connections' = active_connections
                 /\ stats' = stats
                 /\ hpc' = hpc
                 /\ hpc'[c] = "recv"
                 /\ reply' = reply
                 /\ reply'[c] = NoReply
                 /\ disconnects' = disconnects
                 /\ alive' = alive]_vars

\* A frame of unknown type has just been consumed by a registered session
\* while monitoring is on and a second connection is registered.
C12_Witness ==
    /\ ev.arg = "unknown"
    /\ hpc[ev.who] = "recv"
    /\ ev.who \in Range(active_connections)
    /\ Len(active_connections) >= 2
    /\ stats.is_monitoring

\* C13: send_to_all never raises to its caller, whichever sends fail and
\* whatever the sessions do to the list meanwhile: a POST /start or POST
\* /stop is only ever before its call, suspended at a send, or past the call
\* and about to return its success body.
C13_SendToAllNeverRaises ==
    \A r \in Reqs : req[r].pc \in {"idle", "send", "done"}

\* A send_to_all over two connections has returned although every send
\* failed and a session unregistered during the call.
C13_Witness ==
    \E r \in Reqs :
        /\ req[r].pc = "done"
        /\ ~req[r].quiet
        /\ Cardinality(req[r].start) = 2
        /\ \A c \in req[r].start : ~alive[c] /\ req[r].got[c] = 0

\* C14: manager.disconnect for a connection that is not in
\* active_connections (send_to_all has already removed it as dead) is not an
\* error and a no-op on the list: the handler's teardown completes, the list
\* is unchanged, and afterwards total_connections is its length.
C14_DisconnectAbsentIsNoOp ==
    [][\A c \in Conns :
          (disconnects'[c] = disconnects[c] + 1
              /\ c \notin Range(active_connections))
              => /\ active_connections' = active_connections
                 /\ stats'.total_connections = Len(active_connections')
                 /\ stats'.is_monitoring = stats.is_monitoring
                 /\ hpc'[c] = "done"]_vars

\* A session has just unregistered a connection that the send_to_all call in
\* flight or just over had registered at its start and no other task has
\* taken from the list: send_to_all had removed it, the disconnect found it
\* absent, and another connection is still registered.
C14_Witness ==
    \E r \in Reqs :
        /\ req[r].pc # "idle"
        /\ req[r].quiet
        /\ ev.who \in req[r].start
        /\ ev.arg = "disconnect"
        /\ disconnects[ev.who] = 1
        /\ ev.who \notin Range(active_connections)
        /\ Len(active_connections) >= 1

\* This step is SetMonitoring(true): a handler consumes a start_monitoring
\* frame, or POST /start begins.
StartStep ==
    \/ \E c \in Conns :
          hpc[c] = "recv" /\ ev'.who = c /\ ev'.arg = "start_monitoring"
    \/ \E r \in Reqs : req[r].pc = "idle" /\ req'[r].kind = "start"

\* C15: SetMonitoring(true), by a start_monitoring frame or POST /start,
\* leaves for the next reader of stats is_monitoring true and a last_update
\* that is not None and strictly greater than the one before the call.  (The
\* cases where the clock of this model has no later value left are set
\* aside.)
C15_StartAdvancesLastUpdate ==
    [][(StartStep /\ stats.last_update < MaxTime)
          => /\ stats'.is_monitoring
             /\ stats'.last_update # None
             /\ stats'.last_update > stats.last_update]_vars

\* C16: the manager's operations exclude each other: while a send_to_all
\* call is suspended at one of its sends, no other task's connect or
\* disconnect (and no other call's removal) has changed the list it is
\* iterating.
C16_BroadcastExcludesRegistry ==
    \A r \in Reqs : req[r].pc = "send" => req[r].quiet

\* This step is SetMonitoring(false): a handler consumes a stop_monitoring
\* frame, or POST /stop begins.
StopStep ==
    \/ \E c \in Conns :
          hpc[c] = "recv" /\ ev'.who = c /\ ev'.arg = "stop_monitoring"
    \/ \E r \in Reqs : req[r].pc = "idle" /\ req'[r].kind = "stop"

\* C17: is_monitoring changes only in an explicit start or stop step (a
\* start_monitoring or stop_monitoring frame, POST /start, POST /stop), and
\* then to true and to false respectively: connect, disconnect, the sends and
\* removals of send_to_all, ping, get_stats, the replies and every teardown
\* leave it as it is.
C17_MonitoringOnlyByStartStop ==
    [][/\ stats'.is_monitoring # stats.is_monitoring => (StartStep \/ StopStep)
       /\ StartStep => stats'.is_monitoring
       /\ StopStep => ~stats'.is_monitoring
       /\ (\/ \E c \in Conns : hpc'[c] # hpc[c] /\ hpc[c] # "recv"
           \/ \E c \in Conns : disconnects'[c] # disconnects[c]
           \/ \E r \in Reqs :
                 req[r].pc = "send"
                     /\ (req'[r].pc # "send" \/ req'[r].idx # req[r].idx)
           \/ \E c \in Conns :
                 hpc[c] = "recv" /\ ev'.who = c
                     /\ ev'.arg \in {"ping", "get_stats"})
            => stats'.is_monitoring = stats.is_monitoring]_vars

\* Monitoring is on, a send_to_all call that started with a dead connection
\* is over, and a session has just been torn down on a disconnect.
C17_Witness ==
    /\ stats.is_monitoring
    /\ ev.arg = "disconnect"
    /\ \E r \in Reqs : req[r].pc = "done" /\ req[r].dead0 # {}

\* C18: no connection appears more than once in active_connections, under
\* any interleaving of connect, disconnect and send_to_all (each handler
\* calls connect once, for its own websocket).
C18_NoDuplicateConnection ==
    \A i, j \in 1..Len(active_connections) :
        active_connections[i] = active_connections[j] => i = j

\* Two connections are registered, one of them since a send_to_all call that
\* is still suspended at a send began.
C18_Witness ==
    /\ Len(active_connections) >= 2
    /\ \E r \in Reqs : req[r].pc = "send" /\ ~req[r].quiet

\* The handler of c is in its receive loop: connect has returned and its
\* disconnect has not run.
Active(c) == hpc[c] \in {"recv", "reply"}

\* C19: every session handler in its Active receive loop has its connection
\* in active_connections, also after a send_to_all call in which the send to
\* that connection failed.
C19_ActiveIsRegistered ==
    \A c \in Conns : Active(c) => c \in Range(active_connections)

\* C19 as the code has it: every session handler in its Active receive loop
\* whose transport is open has its connection in active_connections; a
\* handler whose transport has failed may already have been unregistered by
\* send_to_all while it is still in its loop.
C19_ActiveOpenIsRegistered ==
    \A c \in Conns :
        (Active(c) /\ alive[c]) => c \in Range(active_connections)

\* A send_to_all call that met a dead connection is over: that connection's
\* handler is still in its loop and unregistered, and another handler with
\* an open transport is in its loop and registered.
C19_Witness ==
    /\ \E r \in Reqs : req[r].pc = "done" /\ req[r].dead0 # {}
    /\ \E c \in Conns :
          hpc[c] = "recv" /\ alive[c] /\ c \in Range(active_connections)
    /\ \E d \in Conns :
          hpc[d] = "recv" /\ ~alive[d] /\ d \notin Range(active_connections)

\* No session handler is running, and each one that ran has closed by a
\* disconnect or a handling error, that is, through the except clauses that
\* call manager.disconnect.
AllSessionsClosed ==
    \A c \in Conns :
        /\ hpc[c] \in {"new", "done"}
        /\ hpc[c] = "done" => disconnects[c] = 1

\* C20: under any interleaving of connects, broadcasts with delivery
\* failures and session closes (by disconnect or handling error), once every
\* session handler has terminated and no send_to_all call is in progress,
\* active_connections is empty and total_connections is 0.
C20_AllClosedMeansEmpty ==
    (AllSessionsClosed /\ \A r \in Reqs : req[r].pc # "send")
        => /\ active_connections = <<>>
           /\ stats.total_connections = 0

\* Every session has run and closed, a send_to_all call that met a dead
\* connection and a concurrent unregistration is over, and the registry is
\* empty.
C20_Witness ==
    /\ \A c \in Conns : hpc[c] = "done" /\ disconnects[c] = 1
    /\ \E r \in Reqs :
          req[r].pc = "done" /\ req[r].dead0 # {} /\ ~req[r].quiet
    /\ active_connections = <<>>
    /\ stats.total_connections = 0

====
